---- MODULE Spec2Model ----
(***************************************************************************)
(* Blue/green deployment log watcher (src/watcher/watcher.py).             *)
(*                                                                         *)
(* The watcher tails an access log, parses every line into a request       *)
(* event, tracks the serving pool (failover detection), keeps a sliding    *)
(* window of upstream status codes (error-rate estimation) and sends       *)
(* Slack alerts through a dispatcher gated by maintenance mode, webhook    *)
(* configuration and a per-category cooldown.                              *)
(***************************************************************************)
EXTENDS Integers, Sequences, FiniteSets, TLC

(***************************************************************************)
(* Optional values: Python's None and a present value.                     *)
(***************************************************************************)
None == <<>>
Some(v) == <<v>>
Get(o) == o[1]

(***************************************************************************)
(* IEEE-754 binary64 arithmetic, as far as check_error_rate uses it:       *)
(* int / int (true division), float * 100 and float > float, each          *)
(* correctly rounded (round half to even).  Natural numbers too wide for   *)
(* a machine integer are sequences of base-2^13 limbs, most significant    *)
(* first.  A positive float is a record [m, e]: m is the 53-bit            *)
(* significand (five limbs, the first one being 1) and the value is        *)
(* m * 2^e.  Zero has the empty significand.                               *)
(***************************************************************************)
MantissaBits == 53
LimbBits == 13
Base == 2 ^ LimbBits

FZero == [m |-> <<>>, e |-> 0]

RECURSIVE Trim(_)
Trim(N) == IF N # <<>> /\ N[1] = 0 THEN Trim(Tail(N)) ELSE N

RECURSIVE BigFromInt(_)
BigFromInt(n) == IF n = 0 THEN <<>> ELSE BigFromInt(n \div Base) \o <<n % Base>>

\* N * c + carry, limb by limb from the least significant one.
RECURSIVE MulCarry(_, _, _)
MulCarry(N, c, carry) ==
    IF N = <<>> THEN BigFromInt(carry)
    ELSE LET k == Len(N)
             t == N[k] * c + carry
         IN MulCarry(SubSeq(N, 1, k - 1), c, t \div Base) \o <<t % Base>>

BigMulSmall(N, c) == Trim(MulCarry(N, c, 0))

BigAdd1(N) == MulCarry(N, 1, 1)

\* Long division of N by the small d: <<quotient limbs, remainder>>.
RECURSIVE DivRem(_, _, _)
DivRem(N, d, r) ==
    IF N = <<>> THEN <<<<>>, r>>
    ELSE LET t    == r * Base + N[1]
             rest == DivRem(Tail(N), d, t % d)
         IN <<<<t \div d>> \o rest[1], rest[2]>>

BigDivSmall(N, d) == LET qr == DivRem(N, d, 0) IN <<Trim(qr[1]), qr[2]>>

BitLen(N) ==
    IF N = <<>> THEN 0
    ELSE LimbBits * (Len(N) - 1)
         + Cardinality({i \in 0..(LimbBits - 1) : 2 ^ i <= N[1]})

ShiftLeft(N, k) ==
    BigMulSmall(N, 2 ^ (k % LimbBits)) \o [i \in 1..(k \div LimbBits) |-> 0]

\* Round the exact value (N + sticky) * 2^e to 53 significand bits, ties to
\* even.  N has at most MantissaBits + LimbBits bits.
FRound(N, sticky, e) ==
    LET n == BitLen(N) IN
    IF n <= MantissaBits
    THEN [m |-> ShiftLeft(N, MantissaBits - n), e |-> e - (MantissaBits - n)]
    ELSE LET s    == n - MantissaBits
             qr   == BigDivSmall(N, 2 ^ s)
             half == 2 ^ (s - 1)
             odd  == qr[1][Len(qr[1])] % 2 = 1
             up   == qr[2] > half \/ (qr[2] = half /\ (sticky \/ odd))
             M    == IF up THEN BigAdd1(qr[1]) ELSE qr[1]
         IN IF BitLen(M) > MantissaBits
            THEN [m |-> BigDivSmall(M, 2)[1], e |-> e + s + 1]
            ELSE [m |-> M, e |-> e + s]

\* float(n) for a non-negative integer n.
FromInt(n) == IF n = 0 THEN FZero ELSE FRound(BigFromInt(n), FALSE, 0)

\* The binary exponent x of n/d: 2^x <= n/d < 2^(x+1).
RECURSIVE Exponent(_, _, _)
Exponent(n, d, x) ==
    IF n < d THEN Exponent(2 * n, d, x - 1)
    ELSE IF n >= 2 * d THEN Exponent(n, 2 * d, x + 1)
    ELSE x

\* a / b for integers a >= 0, b > 0: the quotient to 54 bits, then rounded.
FDiv(a, b) ==
    IF a = 0 THEN FZero
    ELSE LET k  == MantissaBits - Exponent(a, b, 0)
             qr == BigDivSmall(ShiftLeft(BigFromInt(a), k), b)
         IN FRound(qr[1], qr[2] # 0, 0 - k)

\* x * c for a float x and a small positive integer c (exact as a float).
FMulInt(x, c) ==
    IF x = FZero THEN FZero ELSE FRound(BigMulSmall(x.m, c), FALSE, x.e)

\* a > b for limb sequences of the same length.
BigGreater(a, b) ==
    \E i \in 1..Len(a) : a[i] > b[i] /\ \A j \in 1..(i - 1) : a[j] = b[j]

\* x > y for non-negative floats.
FGreater(x, y) ==
    IF x = FZero THEN FALSE
    ELSE IF y = FZero THEN TRUE
    ELSE x.e > y.e \/ (x.e = y.e /\ BigGreater(x.m, y.m))

(***************************************************************************)
(* Text.  A text is a sequence of one-character strings.                   *)
(***************************************************************************)
Digits == {"0", "1", "2", "3", "4", "5", "6", "7", "8", "9"}
Letters == {"b", "l", "u", "e", "g", "r", "n", "v"}
WordChars == Letters \cup Digits \cup {"_"}

DigitVal(c) ==
    CASE c = "0" -> 0 [] c = "1" -> 1 [] c = "2" -> 2 [] c = "3" -> 3
      [] c = "4" -> 4 [] c = "5" -> 5 [] c = "6" -> 6 [] c = "7" -> 7
      [] c = "8" -> 8 [] c = "9" -> 9

\* The group a pattern key=([class]+) captures from the text that follows
\* "key=" in the line: the longest run of class characters, if not empty.
PrefixLen(text, class) ==
    CHOOSE n \in 0..Len(text) :
        /\ \A i \in 1..n : text[i] \in class
        /\ n = Len(text) \/ text[n + 1] \notin class

Capture(field, class) ==
    IF field = None THEN None
    ELSE LET n == PrefixLen(Get(field), class) IN
         IF n = 0 THEN None ELSE Some(SubSeq(Get(field), 1, n))

\* int(text) for a text of digits.
RECURSIVE ParseInt(_)
ParseInt(text) ==
    IF text = <<>> THEN 0
    ELSE 10 * ParseInt(SubSeq(text, 1, Len(text) - 1)) + DigitVal(text[Len(text)])

RECURSIVE Pow10(_)
Pow10(n) == IF n = 0 THEN 1 ELSE 10 * Pow10(n - 1)

\* float(text) for a text of digits and dots: it raises ValueError unless
\* the text has at least one digit and at most one dot.
FloatRaises(text) ==
    \/ Cardinality({i \in 1..Len(text) : text[i] = "."}) > 1
    \/ \A i \in 1..Len(text) : text[i] = "."

\* The decimal value of a float literal, as the fraction num / den.
ParseFloat(text) ==
    LET dots   == {i \in 1..Len(text) : text[i] = "."}
        dot    == IF dots = {} THEN Len(text) + 1 ELSE CHOOSE i \in dots : TRUE
        digits == SubSeq(text, 1, dot - 1) \o SubSeq(text, dot + 1, Len(text))
        frac   == IF dots = {} THEN 0 ELSE Len(text) - dot
    IN [num |-> ParseInt(digits), den |-> Pow10(frac)]

(***************************************************************************)
(* Configuration (read once from the environment) and program state.       *)
(***************************************************************************)
VARIABLES
    SLACK_WEBHOOK_URL,     \* None, or the configured text (possibly empty)
    ERROR_RATE_THRESHOLD,  \* percentage; float() of it is exact
    WINDOW_SIZE,           \* capacity of request_window
    ALERT_COOLDOWN_SEC,
    MAINTENANCE_MODE,
    last_pool,             \* None until the baseline is established
    request_window,        \* deque(maxlen=WINDOW_SIZE) of upstream statuses
    last_alert_time,       \* alert type -> time of the last send recorded
    request_count,         \* main's counter of tracked requests
    pc,                    \* "running", "fatal" (exception re-raised) or
                           \* "interrupted" (KeyboardInterrupt)
    calls,                 \* calls of send_slack_alert made for the last line
    prev_label,            \* history: pool label of the last labelled event
    appended,              \* history: every status appended to the window
    sent_times,            \* history: alert type -> time of its last send
                           \*          reported as sent, if any
    log_exists,            \* os.path.exists(LOG_FILE)
    log_lines,             \* the lines of LOG_FILE, in the order written
    tail_pc,               \* tail_log_file: "waiting", "skipping", "tailing"
    file_pos,              \* lines of the file the reader has read past
    yielded,               \* the lines tail_log_file has yielded
    opened_len             \* history: lines in the file when it was opened

config == <<SLACK_WEBHOOK_URL, ERROR_RATE_THRESHOLD, WINDOW_SIZE,
            ALERT_COOLDOWN_SEC, MAINTENANCE_MODE>>
vars == <<SLACK_WEBHOOK_URL, ERROR_RATE_THRESHOLD, WINDOW_SIZE,
          ALERT_COOLDOWN_SEC, MAINTENANCE_MODE, last_pool, request_window,
          last_alert_time, request_count, pc, calls, prev_label,
          appended, sent_times, log_exists, log_lines, tail_pc, file_pos,
          yielded, opened_len>>
tail == <<log_exists, log_lines, tail_pc, file_pos, yielded, opened_len>>
watcher == <<SLACK_WEBHOOK_URL, ERROR_RATE_THRESHOLD, WINDOW_SIZE,
             ALERT_COOLDOWN_SEC, MAINTENANCE_MODE, last_pool, request_window,
             last_alert_time, request_count, pc, calls, prev_label,
             appended, sent_times>>

(***************************************************************************)
(* Bounds of the model and the inputs drawn from them.                     *)
(***************************************************************************)
MaxRequests == 3      \* tracked requests per run
MaxTime == 1          \* wall-clock readings are 0..MaxTime
MaxWindow == 2        \* WINDOW_SIZE is 1..MaxWindow
MaxCooldown == 1      \* ALERT_COOLDOWN_SEC is 1..MaxCooldown

Times == 0..MaxTime
WindowSizes == 1..MaxWindow
Cooldowns == 1..MaxCooldown
Thresholds == {2}
AlertTypes == {"failover", "error_rate"}

Blue == <<"b", "l", "u", "e">>
Green == <<"g", "r", "e", "e", "n">>
Url == <<"u", "r", "l">>
WebhookUrls == {None, Some(<<>>), Some(Url)}

\* A log line, given by the text that follows each key in it (None when the
\* key does not occur); status is the token after the quoted request.
EventLines ==
    [pool            : {None, Some(Blue), Some(Green)},
     release         : {Some(<<"v", "1", ".", "0">>)},
     upstream_status : {Some(<<"-">>), Some(<<"0">>), Some(<<"2", "0", "0">>),
                        Some(<<"5", "0", "0">>)},
     upstream        : {Some(<<"1", "0", ".", "0", ":", "8", "0">>)},
     request_time    : {Some(<<"0", ".", "0", "4", "5">>)},
     upstream_time   : {None},
     status          : {Some(<<"2", "0", "0">>)}]

\* Lines whose request_time or upstream_time is not a float literal.
OddLines ==
    [pool            : {Some(Green)},
     release         : {None},
     upstream_status : {Some(<<"5", "0", "0">>)},
     upstream        : {None},
     request_time    : {Some(<<"1", ".", "2", ".", "3">>), Some(<<"-">>)},
     upstream_time   : {Some(<<".">>), Some(<<"-">>)},
     status          : {Some(<<"-">>)}]

Lines == EventLines \cup OddLines

\* What the notification transport does when requests.post is called.
Responses ==
    {[raised |-> FALSE, status_code |-> 200],
     [raised |-> FALSE, status_code |-> 204],
     [raised |-> FALSE, status_code |-> 500],
     [raised |-> TRUE, status_code |-> 0]}

\* The environment of one dispatch: the clock reading of datetime.now() and
\* the transport's behaviour.
Inputs == [now : Times, response : Responses]
DefaultInput == [now |-> 0, response |-> [raised |-> FALSE, status_code |-> 200]]

(***************************************************************************)
(* parse_log_line                                                          *)
(***************************************************************************)
TimeChars == Digits \cup {"."}

\* float() of a captured request_time or upstream_time raises ValueError.
ParseRaises(line) ==
    \E f \in {line.request_time, line.upstream_time} :
        LET c == Capture(f, TimeChars) IN c # None /\ FloatRaises(Get(c))

\* The dict parse_log_line returns when no conversion raises.
parse_log_line(line) ==
    LET status  == Capture(line.upstream_status, Digits)
        reqtime == Capture(line.request_time, TimeChars)
        uptime  == Capture(line.upstream_time, TimeChars)
        http    == Capture(line.status, Digits)
    IN [pool            |-> Capture(line.pool, WordChars),
        release         |-> Capture(line.release, WordChars \cup {"-", "."}),
        upstream_status |-> IF status = None THEN None
                            ELSE Some(ParseInt(Get(status))),
        upstream        |-> Capture(line.upstream, Digits \cup {".", ":"}),
        request_time    |-> IF reqtime = None THEN None
                            ELSE Some(ParseFloat(Get(reqtime))),
        upstream_time   |-> IF uptime = None THEN None
                            ELSE Some(ParseFloat(Get(uptime))),
        status          |-> IF http = None \/ Len(Get(line.status)) # 3
                            THEN None ELSE Some(ParseInt(Get(http)))]

(***************************************************************************)
(* send_slack_alert                                                        *)
(***************************************************************************)
\* Python truthiness of an optional text and of an optional integer.
TruthyText(o) == o # None /\ Get(o) # <<>>
TruthyInt(o) == o # None /\ Get(o) # 0

\* The cooldown check with elapsed <= cooldown.
CooldownActiveInclusive(table, alert_type, now) ==
    /\ alert_type \in DOMAIN table
    /\ now - table[alert_type] <= ALERT_COOLDOWN_SEC

\* The cooldown check against the entries of all types.
CooldownActiveAnyType(table, alert_type, now) ==
    \E k \in DOMAIN table : now - table[k] < ALERT_COOLDOWN_SEC

\* The cooldown check: the type has an entry and elapsed < cooldown.
CooldownActive(table, alert_type, now) ==
    /\ alert_type \in DOMAIN table
    /\ now - table[alert_type] < ALERT_COOLDOWN_SEC

\* The early returns without the maintenance check.
SuppressionNoMaintenance(table, alert_type, now) ==
    IF ~TruthyText(SLACK_WEBHOOK_URL) THEN "unconfigured"
    ELSE IF CooldownActive(table, alert_type, now) THEN "cooldown"
    ELSE "none"

\* The early returns with the webhook check before the maintenance check.
SuppressionWebhookFirst(table, alert_type, now) ==
    IF ~TruthyText(SLACK_WEBHOOK_URL) THEN "unconfigured"
    ELSE IF MAINTENANCE_MODE THEN "maintenance"
    ELSE IF CooldownActive(table, alert_type, now) THEN "cooldown"
    ELSE "none"

\* The early returns, in the order of the code; "none" when all are passed.
Suppression(table, alert_type, now) ==
    IF MAINTENANCE_MODE THEN "maintenance"
    ELSE IF ~TruthyText(SLACK_WEBHOOK_URL) THEN "unconfigured"
    ELSE IF CooldownActive(table, alert_type, now) THEN "cooldown"
    ELSE "none"

\* requests.post returned and the response is accepted as a success.
Accepted(response) == ~response.raised /\ response.status_code = 200

\* A table that records the time whatever the answer was.
RecordedAlways(table, alert_type, now, response) ==
    [k \in DOMAIN table \cup {alert_type} |->
        IF k = alert_type THEN now ELSE table[k]]

\* A table that keeps the time of the first accepted send of a type.
RecordedFirstOnly(table, alert_type, now, response) ==
    IF Accepted(response) /\ alert_type \notin DOMAIN table
    THEN [k \in DOMAIN table \cup {alert_type} |->
             IF k = alert_type THEN now ELSE table[k]]
    ELSE table

\* The cooldown table after requests.post has answered.
Recorded(table, alert_type, now, response) ==
    IF Accepted(response)
    THEN [k \in DOMAIN table \cup {alert_type} |->
             IF k = alert_type THEN now ELSE table[k]]
    ELSE table

\* Every exception of requests.post leaves send_slack_alert.
PropagatesUncaught(response) == response.raised

\* An exception of requests.post leaves send_slack_alert: none does, the
\* call is inside try ... except Exception.
Propagates(response) == FALSE

\* The table after the call, and the record of the call: its outcome, the
\* clock reading (None when the clock is not read), whether requests.post
\* was called, with what answer, and whether an exception left the call.
send_slack_alert(message, alert_type, table, inp) ==
    LET reason == Suppression(table, alert_type, inp.now) IN
    IF reason # "none"
    THEN [table |-> table,
          call  |-> [alert_type |-> alert_type, message |-> message,
                     outcome |-> reason,
                     now |-> IF reason = "cooldown" THEN Some(inp.now) ELSE None,
                     posted |-> FALSE, response |-> None,
                     escaped |-> FALSE]]
    ELSE [table |-> Recorded(table, alert_type, inp.now, inp.response),
          call  |-> [alert_type |-> alert_type, message |-> message,
                     outcome |-> IF Accepted(inp.response) THEN "sent"
                                 ELSE "failed",
                     now |-> Some(inp.now),
                     posted |-> TRUE, response |-> Some(inp.response),
                     escaped |-> Propagates(inp.response)]]

(***************************************************************************)
(* detect_failover                                                         *)
(***************************************************************************)
\* The contents of an alert message (its time stamp and the formatted rate
\* are left out).
FailoverMessage(from, to) ==
    [title |-> "Failover Detected", from |-> from, to |-> to,
     error_count |-> None, capacity |-> None]

ErrorRateMessage(error_count) ==
    [title |-> "High Error Rate Alert", from |-> None, to |-> None,
     error_count |-> Some(error_count), capacity |-> Some(WINDOW_SIZE)]

\* detect_failover without the assignment that follows the alert.
detect_failover_stale(current_pool, lp) ==
    IF ~TruthyText(current_pool) THEN [last_pool |-> lp, alert |-> None]
    ELSE IF lp = None THEN [last_pool |-> current_pool, alert |-> None]
    ELSE IF current_pool # lp
    THEN [last_pool |-> lp,
          alert |-> Some(FailoverMessage(lp, current_pool))]
    ELSE [last_pool |-> lp, alert |-> None]

\* detect_failover without the baseline branch.
detect_failover_nobaseline(current_pool, lp) ==
    IF ~TruthyText(current_pool) THEN [last_pool |-> lp, alert |-> None]
    ELSE IF current_pool # lp
    THEN [last_pool |-> current_pool,
          alert |-> Some(FailoverMessage(lp, current_pool))]
    ELSE [last_pool |-> lp, alert |-> None]

\* detect_failover that records the new pool only when alerts are neither
\* silenced by maintenance mode nor left without a webhook.
detect_failover_unless_silenced(current_pool, lp) ==
    IF ~TruthyText(current_pool) THEN [last_pool |-> lp, alert |-> None]
    ELSE IF lp = None THEN [last_pool |-> current_pool, alert |-> None]
    ELSE IF current_pool # lp
    THEN [last_pool |-> IF MAINTENANCE_MODE \/ ~TruthyText(SLACK_WEBHOOK_URL)
                        THEN lp ELSE current_pool,
          alert |-> Some(FailoverMessage(lp, current_pool))]
    ELSE [last_pool |-> lp, alert |-> None]

\* last_pool after the call, and the message passed to
\* send_slack_alert(message, alert_type='failover'), if it is called.
detect_failover(current_pool, lp) ==
    IF ~TruthyText(current_pool) THEN [last_pool |-> lp, alert |-> None]
    ELSE IF lp = None THEN [last_pool |-> current_pool, alert |-> None]
    ELSE IF current_pool # lp
    THEN [last_pool |-> current_pool,
          alert |-> Some(FailoverMessage(lp, current_pool))]
    ELSE [last_pool |-> lp, alert |-> None]

(***************************************************************************)
(* check_error_rate                                                        *)
(***************************************************************************)
\* An append that drops the new entry instead of the oldest one.
DequeAppendKeepOldest(window, x) ==
    IF Len(window) < WINDOW_SIZE THEN Append(window, x) ELSE window

\* deque.append with maxlen: the oldest entry leaves a full window.
DequeAppend(window, x) ==
    IF Len(window) < WINDOW_SIZE THEN Append(window, x)
    ELSE Tail(Append(window, x))

\* sum(1 for status in request_window if status and status >= 500)
ErrorCount(window) ==
    Cardinality({i \in 1..Len(window) : window[i] # 0 /\ window[i] >= 500})

\* (error_count / WINDOW_SIZE) * 100 > ERROR_RATE_THRESHOLD, in binary64.
ErrorRateExceeded(error_count) ==
    FGreater(FMulInt(FDiv(error_count, WINDOW_SIZE), 100),
             FromInt(ERROR_RATE_THRESHOLD))

\* The body of check_error_rate after its guard: the message passed to
\* send_slack_alert(message, alert_type='error_rate'), if it is called.
RateAlert(window) ==
    IF ErrorRateExceeded(ErrorCount(window))
    THEN Some(ErrorRateMessage(ErrorCount(window)))
    ELSE None

check_error_rate(window) ==
    IF Len(window) < WINDOW_SIZE THEN None ELSE RateAlert(window)

(***************************************************************************)
(* main: one iteration of the loop over the tailed lines.                  *)
(***************************************************************************)
\* if data['upstream_status']: append it and count the request.
Track(window, d) ==
    IF TruthyInt(d.upstream_status)
    THEN DequeAppend(window, Get(d.upstream_status))
    ELSE window

\* A counter of the tracked requests that were answered with an error.
CountErrorsOnly(count, d) ==
    IF TruthyInt(d.upstream_status) /\ Get(d.upstream_status) >= 500
    THEN count + 1 ELSE count

Count(count, d) ==
    IF TruthyInt(d.upstream_status) THEN count + 1 ELSE count

\* if data['pool']: detect_failover(data['pool'])
FailoverCheck(d, lp) ==
    IF TruthyText(d.pool) THEN detect_failover(d.pool, lp)
    ELSE [last_pool |-> lp, alert |-> None]

\* The rate check without the gate on the counter and the guard on the
\* window length.
ErrorCheckUngated(count, window) == RateAlert(window)

\* The rate check made before the line's status is appended and counted.
ErrorCheckBeforeAppend(count, window) ==
    IF request_count >= WINDOW_SIZE THEN check_error_rate(request_window)
    ELSE None

\* if request_count >= WINDOW_SIZE: check_error_rate()
ErrorCheck(count, window) ==
    IF count >= WINDOW_SIZE THEN check_error_rate(window) ELSE None

Range(seq) == {seq[i] : i \in 1..Len(seq)}

\* The environments that matter to the dispatch of an alert: a dispatch
\* that does not happen, or that returns before the clock is read or before
\* requests.post is called, is the same in all of them.
ClockReadings(alert, alert_type, table) ==
    IF alert # None
       /\ send_slack_alert(Get(alert), alert_type, table, DefaultInput).call.now
              # None
    THEN Times ELSE {DefaultInput.now}

Answers(alert, alert_type, table, now) ==
    IF alert # None
       /\ send_slack_alert(Get(alert), alert_type, table,
              [now |-> now, response |-> DefaultInput.response]).call.posted
    THEN Responses ELSE {DefaultInput.response}

\* The cooldown table and the calls made after an alert, if any, is passed
\* to send_slack_alert.
Dispatch(alert, alert_type, table, inp) ==
    IF alert = None THEN [table |-> table, calls |-> <<>>]
    ELSE [table |-> send_slack_alert(Get(alert), alert_type, table, inp).table,
          calls |-> <<send_slack_alert(Get(alert), alert_type, table, inp).call>>]

\* History of the sends reported as sent: the time of the last one per type.
SentAfter(times, cs) ==
    [k \in AlertTypes |->
        IF \E c \in Range(cs) : c.alert_type = k /\ c.outcome = "sent"
        THEN (CHOOSE c \in Range(cs) :
                  c.alert_type = k /\ c.outcome = "sent").now
        ELSE times[k]]

ProcessLine(line) ==
    /\ pc = "running"
    /\ IF ParseRaises(line)
       THEN /\ pc' = "fatal"
            /\ calls' = <<>>
            /\ UNCHANGED <<config, last_pool, request_window, last_alert_time,
                           request_count, prev_label, appended, sent_times,
                           tail>>
       ELSE \E d \in {parse_log_line(line)} :
            \E window1 \in {Track(request_window, d)} :
            \E count1 \in {Count(request_count, d)} :
            \E fo \in {FailoverCheck(d, last_pool)} :
            \E er \in {ErrorCheck(count1, window1)} :
            \E now1 \in ClockReadings(fo.alert, "failover", last_alert_time) :
            \E r1 \in Answers(fo.alert, "failover", last_alert_time, now1) :
            \E d1 \in {Dispatch(fo.alert, "failover", last_alert_time,
                                [now |-> now1, response |-> r1])} :
            \E now2 \in ClockReadings(er, "error_rate", d1.table) :
            \E r2 \in Answers(er, "error_rate", d1.table, now2) :
            \E d2 \in {Dispatch(er, "error_rate", d1.table,
                                [now |-> now2, response |-> r2])} :
                /\ count1 # request_count => count1 <= MaxRequests
                /\ request_window' = window1
                /\ request_count' = count1
                /\ last_pool' = fo.last_pool
                /\ last_alert_time' = d2.table
                /\ calls' = d1.calls \o d2.calls
                /\ prev_label' = IF d.pool # None THEN d.pool ELSE prev_label
                /\ appended' = IF count1 # request_count
                               THEN Append(appended, Get(d.upstream_status))
                               ELSE appended
                /\ sent_times' = SentAfter(sent_times, d1.calls \o d2.calls)
                /\ pc' = IF \E c \in Range(d1.calls \o d2.calls) : c.escaped
                         THEN "fatal" ELSE "running"
                /\ UNCHANGED <<config, tail>>

\* KeyboardInterrupt ends the loop.
Interrupt ==
    /\ pc = "running"
    /\ pc' = "interrupted"
    /\ UNCHANGED <<config, last_pool, request_window, last_alert_time,
                   request_count, calls, prev_label, appended, sent_times,
                   tail>>

\* tail_log_file has not been called yet and LOG_FILE does not exist.
TailStarted ==
    /\ log_exists = FALSE
    /\ log_lines = <<>>
    /\ tail_pc = "waiting"
    /\ file_pos = 0
    /\ yielded = <<>>
    /\ opened_len = None

\* The state at the start of main.
Started ==
    /\ last_pool = None
    /\ request_window = <<>>
    /\ last_alert_time = <<>>
    /\ request_count = 0
    /\ pc = "running"
    /\ calls = <<>>
    /\ prev_label = None
    /\ appended = <<>>
    /\ sent_times = [k \in AlertTypes |-> None]

Init ==
    /\ SLACK_WEBHOOK_URL \in WebhookUrls
    /\ ERROR_RATE_THRESHOLD \in Thresholds
    /\ WINDOW_SIZE \in WindowSizes
    /\ ALERT_COOLDOWN_SEC \in Cooldowns
    /\ MAINTENANCE_MODE \in BOOLEAN
    /\ Started
    /\ TailStarted

Next ==
    \/ \E line \in Lines : ProcessLine(line)
    \/ Interrupt

Spec == Init /\ [][Next]_vars

(***************************************************************************)
(* The error-rate estimator on a saturated window: the watcher has tracked *)
(* WINDOW_SIZE requests, `errors' of them answered 500, and goes on with   *)
(* lines that carry no upstream status.                                    *)
(***************************************************************************)
\* <<WINDOW_SIZE, ERROR_RATE_THRESHOLD>>
RateConfigs == {<<20, 55>>, <<200, 2>>}

\* Error counts within one request of the threshold.
RateErrors(size, threshold) ==
    {n \in 0..size : 100 * n >= threshold * size - 100
                     /\ 100 * n <= threshold * size + 100}

InitRate ==
    /\ SLACK_WEBHOOK_URL \in WebhookUrls
    /\ \E c \in RateConfigs : WINDOW_SIZE = c[1] /\ ERROR_RATE_THRESHOLD = c[2]
    /\ ALERT_COOLDOWN_SEC \in Cooldowns
    /\ MAINTENANCE_MODE \in BOOLEAN
    /\ last_pool = None
    /\ \E errors \in RateErrors(WINDOW_SIZE, ERROR_RATE_THRESHOLD) :
           request_window =
               [i \in 1..WINDOW_SIZE |-> IF i <= errors THEN 500 ELSE 200]
    /\ last_alert_time = <<>>
    /\ request_count = WINDOW_SIZE
    /\ pc = "running"
    /\ calls = <<>>
    /\ prev_label = None
    /\ appended = request_window
    /\ sent_times = [k \in AlertTypes |-> None]
    /\ TailStarted

SpecRate == InitRate /\ [][Next]_vars

(***************************************************************************)
(* tail_log_file: the reader of LOG_FILE and the writer that appends to    *)
(* it.  A line is named by its number in the order of writing; the reader  *)
(* reads one line per step.                                                *)
(***************************************************************************)
MaxLines == 4         \* lines the writer appends

\* The writer creates the file.
CreateLog ==
    /\ ~log_exists
    /\ log_exists' = TRUE
    /\ UNCHANGED <<log_lines, tail_pc, file_pos, yielded, opened_len>>
    /\ UNCHANGED watcher

\* The writer appends one line.
AppendLine ==
    /\ log_exists
    /\ Len(log_lines) < MaxLines
    /\ log_lines' = Append(log_lines, Len(log_lines) + 1)
    /\ UNCHANGED <<log_exists, tail_pc, file_pos, yielded, opened_len>>
    /\ UNCHANGED watcher

\* while not os.path.exists(filename) ends; open(filename, 'r').
OpenLog ==
    /\ tail_pc = "waiting"
    /\ log_exists
    /\ tail_pc' = "skipping"
    /\ file_pos' = 0
    /\ opened_len' = Some(Len(log_lines))
    /\ UNCHANGED <<log_exists, log_lines, yielded>>
    /\ UNCHANGED watcher

\* for _ in file: pass -- one line is read and dropped.
SkipLine ==
    /\ tail_pc = "skipping"
    /\ file_pos < Len(log_lines)
    /\ file_pos' = file_pos + 1
    /\ UNCHANGED <<log_exists, log_lines, tail_pc, yielded, opened_len>>
    /\ UNCHANGED watcher

\* for _ in file: pass -- the end of the file is reached, the loop ends.
SkipDone ==
    /\ tail_pc = "skipping"
    /\ file_pos = Len(log_lines)
    /\ tail_pc' = "tailing"
    /\ UNCHANGED <<log_exists, log_lines, file_pos, yielded, opened_len>>
    /\ UNCHANGED watcher

\* line = file.readline(); if line: yield line.strip()
YieldLine ==
    /\ tail_pc = "tailing"
    /\ file_pos < Len(log_lines)
    /\ file_pos' = file_pos + 1
    /\ yielded' = Append(yielded, log_lines[file_pos + 1])
    /\ UNCHANGED <<log_exists, log_lines, tail_pc, opened_len>>
    /\ UNCHANGED watcher

\* The watcher's configuration and state while only the line source runs.
InitTail ==
    /\ SLACK_WEBHOOK_URL = None
    /\ ERROR_RATE_THRESHOLD \in Thresholds
    /\ WINDOW_SIZE = MaxWindow
    /\ ALERT_COOLDOWN_SEC = MaxCooldown
    /\ MAINTENANCE_MODE = FALSE
    /\ Started
    /\ TailStarted

NextTail ==
    \/ CreateLog
    \/ AppendLine
    \/ OpenLog
    \/ SkipLine
    \/ SkipDone
    \/ YieldLine

SpecTail == InitTail /\ [][NextTail]_vars


(***************************************************************************)
(* Properties.  A step that leaves pc = "running" and changes the state is *)
(* the processing of one line; calls' are the alerts raised for that line. *)
(***************************************************************************)
CallsOf(cs, alert_type) == SelectSeq(cs, LAMBDA c : c.alert_type = alert_type)

Min(a, b) == IF a < b THEN a ELSE b

LastN(seq, n) == SubSeq(seq, Len(seq) - n + 1, Len(seq))

\* C1: a failover alert is raised exactly for each pool-labelled event whose
\* label differs from the label of the previous pool-labelled event, and it
\* carries from = the previous label, to = the new label; an event with the
\* same label, or with no label, raises none and leaves last_pool as it is.
C1_FailoverOnLabelChange ==
    [][pc' = "running" =>
          IF prev_label # None /\ prev_label' # prev_label
          THEN /\ Len(CallsOf(calls', "failover")) = 1
               /\ CallsOf(calls', "failover")[1].message.from = prev_label
               /\ CallsOf(calls', "failover")[1].message.to = prev_label'
          ELSE /\ CallsOf(calls', "failover") = <<>>
               /\ prev_label' = prev_label => last_pool' = last_pool]_vars

\* A failover alert from one label to the other was raised by the last line.
C1_Witness ==
    /\ pc = "running"
    /\ \E c \in Range(calls) :
           /\ c.alert_type = "failover"
           /\ c.message.to = prev_label
           /\ c.message.from \in {Some(Blue), Some(Green)} \ {prev_label}

\* C2: the first event that carries a pool label finds last_pool = None,
\* sets last_pool to its label and raises no failover alert.
C2_BaselineRaisesNoAlert ==
    [][pc' = "running" /\ prev_label = None /\ prev_label' # None =>
          /\ last_pool = None
          /\ last_pool' = prev_label'
          /\ CallsOf(calls', "failover") = <<>>]_vars

\* The baseline has just been set by the first labelled event, in a line
\* that raised no alert at all.
C2_Witness ==
    /\ pc = "running"
    /\ last_pool # None
    /\ last_pool = prev_label
    /\ calls = <<>>
    /\ \A k \in AlertTypes : sent_times[k] = None

\* C3: the window never holds more than WINDOW_SIZE entries and is the last
\* min(n, WINDOW_SIZE) of the n status codes appended, in arrival order.
C3_WindowIsLastAppended ==
    /\ Len(request_window) <= WINDOW_SIZE
    /\ request_window = LastN(appended, Min(Len(appended), WINDOW_SIZE))

\* More than WINDOW_SIZE appends: the oldest entries have been evicted.
C3_Witness ==
    /\ Len(appended) > WINDOW_SIZE
    /\ Len(request_window) = WINDOW_SIZE
    /\ appended[1] # appended[Len(appended)]


\* C4: on a saturated window, a high-error-rate alert is raised if and only
\* if 100 * (entries with status >= 500) / WINDOW_SIZE is strictly greater
\* than ERROR_RATE_THRESHOLD; a rate equal to the threshold raises none.
C4_AlertIffRateAboveThreshold ==
    [][pc' = "running" /\ Len(request_window') = WINDOW_SIZE =>
          (CallsOf(calls', "error_rate") # <<>>
             <=> 100 * Cardinality({i \in 1..Len(request_window') :
                                       request_window'[i] >= 500})
                   > ERROR_RATE_THRESHOLD * WINDOW_SIZE)]_vars

\* C5: no high-error-rate alert is raised while fewer than WINDOW_SIZE
\* status codes have been appended to the window.
C5_NoRateAlertBeforeSaturation ==
    CallsOf(calls, "error_rate") # <<>> => Len(appended) >= WINDOW_SIZE

\* Some status codes, all of them 5xx and fewer than WINDOW_SIZE, have been
\* appended while the threshold is below what they would amount to.
C5_Witness ==
    /\ pc = "running"
    /\ 0 < Len(appended) /\ Len(appended) < WINDOW_SIZE
    /\ \A i \in 1..Len(appended) : appended[i] >= 500
    /\ 100 * Len(appended) > ERROR_RATE_THRESHOLD * WINDOW_SIZE
    /\ CallsOf(calls, "error_rate") = <<>>

\* C6: after a send of a type was reported as sent at time t, a dispatch of
\* that type at `now' with now - t < ALERT_COOLDOWN_SEC is suppressed without
\* calling the transport and one with now - t >= ALERT_COOLDOWN_SEC is not
\* suppressed by the cooldown; so a send reported as sent comes at least
\* ALERT_COOLDOWN_SEC after the previous one of its type.
C6_CooldownGate ==
    [][pc' = "running" =>
          \A c \in Range(calls') :
              LET sent == sent_times[c.alert_type] IN
              sent # None =>
                  /\ c.now # None
                  /\ Get(c.now) - Get(sent) < ALERT_COOLDOWN_SEC
                       => c.outcome = "cooldown" /\ ~c.posted
                  /\ Get(c.now) - Get(sent) >= ALERT_COOLDOWN_SEC
                       => c.outcome # "cooldown" /\ c.posted
                  /\ c.outcome = "sent"
                       => Get(c.now) - Get(sent) >= ALERT_COOLDOWN_SEC]_vars

\* A dispatch is suppressed by the cooldown that an earlier send of its
\* type started, and the other type has been sent too.
C6_Witness ==
    /\ \A k \in AlertTypes : sent_times[k] # None
    /\ \E c \in Range(calls) :
           /\ c.outcome = "cooldown"
           /\ Get(c.now) - Get(sent_times[c.alert_type]) < ALERT_COOLDOWN_SEC

\* C7: in maintenance mode no dispatch calls the transport and the cooldown
\* table is never modified (it stays empty).
C7_MaintenanceSilences ==
    MAINTENANCE_MODE =>
        /\ last_alert_time = <<>>
        /\ \A c \in Range(calls) : ~c.posted /\ c.response = None

\* In maintenance mode with a webhook configured, one line has raised both a
\* failover and a high-error-rate alert.
C7_Witness ==
    /\ MAINTENANCE_MODE
    /\ TruthyText(SLACK_WEBHOOK_URL)
    /\ Len(calls) = 2

\* The transport was called and did not acknowledge with a 2xx response.
TransportFailed(c) ==
    /\ c.posted
    /\ Get(c.response).raised \/ Get(c.response).status_code \notin 200..299

Entry(table, k) == IF k \in DOMAIN table THEN Some(table[k]) ELSE None

\* C8: a dispatch whose transport call fails leaves the cooldown entry of
\* its type unchanged, and when no send of that type was ever reported as
\* sent, the next dispatch of the type calls the transport again.
C8_FailedSendStartsNoCooldown ==
    [][pc' = "running" =>
          /\ \A c \in Range(calls') :
                TransportFailed(c) =>
                    Entry(last_alert_time', c.alert_type)
                        = Entry(last_alert_time, c.alert_type)
          /\ \A c \in Range(calls) : \A n \in Range(calls') :
                /\ TransportFailed(c)
                /\ n.alert_type = c.alert_type
                /\ sent_times[c.alert_type] = None
                => n.posted]_vars

\* A transport call has failed for a type that has no cooldown entry.
C8_Witness ==
    \E c \in Range(calls) :
        /\ TransportFailed(c)
        /\ c.alert_type \notin DOMAIN last_alert_time

\* C9: parsing never fails, so no line ever ends the driver loop with an
\* exception.
C9_ParsingNeverFails == pc # "fatal"

\* C10: the dispatcher checks maintenance mode, then the webhook, then the
\* cooldown, and the first that applies decides; the transport is called
\* only when none applies, and never without a webhook.
C10_SuppressionOrder ==
    [][pc' = "running" =>
          \A c \in Range(calls') :
              LET unconfigured == SLACK_WEBHOOK_URL \in {None, Some(<<>>)}
                  cooling == /\ c.now # None
                             /\ c.alert_type \in DOMAIN last_alert_time
                             /\ Get(c.now) - last_alert_time[c.alert_type]
                                  < ALERT_COOLDOWN_SEC
              IN IF MAINTENANCE_MODE
                 THEN c.outcome = "maintenance" /\ ~c.posted
                 ELSE IF unconfigured
                 THEN c.outcome = "unconfigured" /\ ~c.posted
                 ELSE IF cooling
                 THEN c.outcome = "cooldown" /\ ~c.posted
                 ELSE c.outcome \in {"sent", "failed"} /\ c.posted]_vars

\* A dispatch in maintenance mode with no webhook configured: both of the
\* first two checks apply.
C10_Witness ==
    /\ MAINTENANCE_MODE
    /\ SLACK_WEBHOOK_URL = None
    /\ calls # <<>>

\* C11: whenever requests.post answers a dispatch with a 2xx response, the
\* send counts as successful and last_alert_time records the `now' of that
\* dispatch for its type.
C11_AckedSendIsRecorded ==
    [][pc' = "running" =>
          \A c \in Range(calls') :
              /\ c.posted
              /\ ~Get(c.response).raised
              /\ Get(c.response).status_code \in 200..299
              => /\ c.outcome = "sent"
                 /\ Entry(last_alert_time', c.alert_type) = c.now]_vars

\* C12: in every reachable state a type has an entry in last_alert_time if
\* and only if a send of that type has been reported as sent, and the entry
\* is the clock reading of the most recent such send.
C12_TableIsLastSuccessfulSend ==
    /\ DOMAIN last_alert_time \subseteq AlertTypes
    /\ \A k \in AlertTypes :
           /\ k \in DOMAIN last_alert_time <=> sent_times[k] # None
           /\ k \in DOMAIN last_alert_time
                => last_alert_time[k] = Get(sent_times[k])

\* One line raised both alerts: the failover send was accepted and has its
\* entry, the error-rate send failed on the transport and has none.
C12_Witness ==
    /\ \E c \in Range(calls) :
           /\ c.alert_type = "failover"
           /\ c.outcome = "sent"
           /\ "failover" \in DOMAIN last_alert_time
    /\ \E c \in Range(calls) :
           /\ c.alert_type = "error_rate"
           /\ c.outcome = "failed"
           /\ "error_rate" \notin DOMAIN last_alert_time

\* C13: the cooldown is kept per alert type: the dispatches of one line
\* change only the entries of the types reported as sent, and a dispatch
\* is suppressed by the cooldown only when its own type has an entry, left
\* by an earlier send of that type, within ALERT_COOLDOWN_SEC of its clock
\* reading.
C13_CooldownPerType ==
    [][pc' = "running" =>
          /\ \A k \in AlertTypes :
                (\A c \in Range(calls') :
                    c.alert_type = k => c.outcome # "sent")
                => Entry(last_alert_time', k) = Entry(last_alert_time, k)
          /\ \A c \in Range(calls') :
                c.outcome = "cooldown"
                => /\ sent_times[c.alert_type] # None
                   /\ c.alert_type \in DOMAIN last_alert_time
                   /\ Get(c.now) - last_alert_time[c.alert_type]
                        < ALERT_COOLDOWN_SEC]_vars

\* An error-rate dispatch reaches the transport at a clock reading within
\* the cooldown of a failover send, the only entry of the table.
C13_Witness ==
    /\ DOMAIN last_alert_time = {"failover"}
    /\ \E c \in Range(calls) :
           /\ c.alert_type = "error_rate"
           /\ c.posted
           /\ c.outcome = "failed"
           /\ Get(c.now) - last_alert_time["failover"] < ALERT_COOLDOWN_SEC
           /\ Get(c.now) >= last_alert_time["failover"]

\* C14: every line that carries an upstream status, whatever integer the
\* parser makes of it (0 included), is appended to the window and counted
\* once.
C14_EveryStatusIsTracked ==
    [][\A line \in Lines :
          /\ ProcessLine(line)
          /\ pc' = "running"
          /\ Capture(line.upstream_status, Digits) # None
          => /\ request_count' = request_count + 1
             /\ request_window' =
                    DequeAppend(request_window,
                        ParseInt(Get(Capture(line.upstream_status, Digits))))
    ]_vars

\* C15: a line without an upstream status leaves the window and the
\* counter unchanged and causes no error-rate evaluation: no dispatch of
\* type error_rate is made for it, even on a saturated window above the
\* threshold.
C15_RateEvaluatedOnlyOnTrackedLines ==
    [][\A line \in Lines :
          /\ ProcessLine(line)
          /\ pc' = "running"
          /\ Capture(line.upstream_status, Digits) = None
          => /\ request_count' = request_count
             /\ request_window' = request_window
             /\ CallsOf(calls', "error_rate") = <<>>]_vars

\* The transport failed on a dispatch: requests.post raised or answered
\* with a status the dispatcher does not accept.
DispatchFailed(c) == c.posted /\ c.outcome = "failed"

\* C16: a failure of the transport during a dispatch never ends the driver
\* loop: no line for which a dispatch failed ends with pc = "fatal".
C16_TransportFailureIsNotFatal ==
    (\E c \in Range(calls) : DispatchFailed(c)) => pc # "fatal"

\* Both dispatches of one line failed, the first by an exception of
\* requests.post and the second by a 500 answer, and the loop is running.
C16_Witness ==
    /\ pc = "running"
    /\ Len(calls) = 2
    /\ DispatchFailed(calls[1]) /\ Get(calls[1].response).raised
    /\ DispatchFailed(calls[2]) /\ Get(calls[2].response).status_code = 500

\* C17: for each line the status is appended and counted first, then the
\* failover is detected, then the error rate is evaluated: the rate is
\* that of the window with the line's own status in it, and when a line
\* raises both alerts the failover dispatch comes before the error_rate
\* dispatch.
C17_StepOrder ==
    [][pc' = "running" =>
          /\ Len(calls') = 2
                => /\ calls'[1].alert_type = "failover"
                   /\ calls'[2].alert_type = "error_rate"
          /\ \A c \in Range(CallsOf(calls', "error_rate")) :
                /\ c.message.error_count = Some(ErrorCount(request_window'))
                /\ 100 * ErrorCount(request_window')
                     > ERROR_RATE_THRESHOLD * WINDOW_SIZE
          /\ request_count' # request_count
                /\ request_count' >= WINDOW_SIZE
                /\ 100 * ErrorCount(request_window')
                     > ERROR_RATE_THRESHOLD * WINDOW_SIZE
                => CallsOf(calls', "error_rate") # <<>>]_vars

\* One line raised both alerts, and its own status is the only error of
\* the window that was evaluated.
C17_Witness ==
    /\ Len(calls) = 2
    /\ calls[1].alert_type = "failover"
    /\ calls[2].alert_type = "error_rate"
    /\ calls[2].message.error_count = Some(1)
    /\ Len(request_window) = 2
    /\ request_window[1] < 500
    /\ request_window[2] >= 500

\* C18: tail_log_file yields no line that was in the file when it was
\* opened, and yields the lines appended afterwards once each, in the
\* order of appending, passing over none: at any moment the yielded lines
\* are the lines after those present at the opening, up to the reader's
\* position.
C18_TailYieldsAppendedLines ==
    opened_len # None =>
        /\ \A i \in 1..Len(yielded) : yielded[i] > Get(opened_len)
        /\ tail_pc = "tailing" =>
               yielded = SubSeq(log_lines, Get(opened_len) + 1, file_pos)

\* C19: after any line, len(request_window) = min(request_count,
\* WINDOW_SIZE), so that main's gate request_count >= WINDOW_SIZE and
\* check_error_rate's guard on len(request_window) agree; the counter is
\* the number of statuses appended so far and never decreases.
C19_WindowLengthFollowsCounter ==
    /\ Len(request_window) = Min(request_count, WINDOW_SIZE)
    /\ request_count >= WINDOW_SIZE <=> Len(request_window) >= WINDOW_SIZE
    /\ request_count = Len(appended)

\* More requests have been counted than the window holds.
C19_Witness ==
    /\ WINDOW_SIZE = 2
    /\ request_count = 3
    /\ Len(request_window) = 2
    /\ pc = "running"

\* C20: after a line that carries a pool label, last_pool is that label
\* whatever became of the dispatch (sent, suppressed or failed): last_pool
\* is always the label of the last labelled event, and a failover dispatch
\* is always for the pool that last_pool now holds, so later events with
\* that label find no change.
C20_LastPoolFollowsLabel ==
    /\ last_pool = prev_label
    /\ \A c \in Range(CallsOf(calls, "failover")) :
           /\ c.message.to = last_pool
           /\ c.message.from # c.message.to

\* The alert of a pool change was not delivered and last_pool holds the new
\* pool: suppressed by the cooldown of an earlier failover send.
C20_Witness ==
    \E c \in Range(CallsOf(calls, "failover")) :
        /\ c.outcome = "cooldown"
        /\ c.message.to = last_pool
        /\ "failover" \in DOMAIN last_alert_time

====
